---- MODULE Spec2Model ----
(***************************************************************************)
(* CareerCompass (src/app.py): a Flask application in which a logged-in    *)
(* user uploads a resume, the text is extracted, skills are detected by    *)
(* substring search against a fixed vocabulary, compared with the target   *)
(* skills of a job role, scored, stored in the browser session, and shown  *)
(* by the charts and career_recommendation pages; a chatbot page forwards  *)
(* a query to a remote text-generation service.                            *)
(*                                                                         *)
(* Strings the code inspects character by character (file names, resume    *)
(* text, skill names) are sequences of one-character strings.  Strings     *)
(* the code only compares or displays (user names, passwords, role names,  *)
(* flash messages) are TLA+ strings.                                       *)
(***************************************************************************)
EXTENDS Integers, Sequences, FiniteSets, TLC

(***************************************************************************)
(* Python str methods used by the code, on sequences of characters.        *)
(***************************************************************************)

\* str.lower() of one character (the vocabulary and the fixtures are ASCII).
TO_LOWER ==
    [A |-> "a", B |-> "b", C |-> "c", D |-> "d", E |-> "e", F |-> "f", G |-> "g",
     H |-> "h", I |-> "i", J |-> "j", K |-> "k", L |-> "l", M |-> "m", N |-> "n",
     O |-> "o", P |-> "p", Q |-> "q", R |-> "r", S |-> "s", T |-> "t", U |-> "u",
     V |-> "v", W |-> "w", X |-> "x", Y |-> "y", Z |-> "z"]

\* str.upper() of one character.
TO_UPPER ==
    [a |-> "A", b |-> "B", c |-> "C", d |-> "D", e |-> "E", f |-> "F", g |-> "G",
     h |-> "H", i |-> "I", j |-> "J", k |-> "K", l |-> "L", m |-> "M", n |-> "N",
     o |-> "O", p |-> "P", q |-> "Q", r |-> "R", s |-> "S", t |-> "T", u |-> "U",
     v |-> "V", w |-> "W", x |-> "X", y |-> "Y", z |-> "Z"]

\* The characters str.split() and str.strip() treat as whitespace.
WHITESPACE == {" ", "\n", "\t"}

UPPERCASE_LETTERS == DOMAIN TO_LOWER

LOWERCASE_LETTERS == DOMAIN TO_UPPER

char_lower(c) == IF c \in UPPERCASE_LETTERS THEN TO_LOWER[c] ELSE c

char_upper(c) == IF c \in LOWERCASE_LETTERS THEN TO_UPPER[c] ELSE c

\* A character with a case: str.title() starts a new word after any other one.
is_cased(c) == c \in UPPERCASE_LETTERS \/ c \in LOWERCASE_LETTERS

\* s.lower()
lower(s) == [i \in 1..Len(s) |-> char_lower(s[i])]

\* s.capitalize(): the first character upper-cased, the rest lower-cased.
capitalize(s) == [i \in 1..Len(s) |-> IF i = 1 THEN char_upper(s[i]) ELSE char_lower(s[i])]

\* s.title(): a cased character is upper-cased when the character before it
\* is not cased (or there is none), lower-cased otherwise.
title(s) ==
    [i \in 1..Len(s) |->
        IF i > 1 /\ is_cased(s[i - 1]) THEN char_lower(s[i]) ELSE char_upper(s[i])]

\* s.split(): the maximal runs of non-whitespace characters, in order.
RECURSIVE split(_)
split(s) ==
    IF s = <<>> THEN <<>>
    ELSE IF s[1] \in WHITESPACE THEN split(Tail(s))
    ELSE LET stop == IF \E i \in 1..Len(s) : s[i] \in WHITESPACE
                     THEN (CHOOSE i \in 1..Len(s) :
                              /\ s[i] \in WHITESPACE
                              /\ \A j \in 1..(i - 1) : s[j] \notin WHITESPACE) - 1
                     ELSE Len(s)
         IN  <<SubSeq(s, 1, stop)>> \o split(SubSeq(s, stop + 1, Len(s)))

\* sep.join(words)
RECURSIVE join(_, _)
join(sep, words) ==
    IF words = <<>> THEN <<>>
    ELSE IF Len(words) = 1 THEN words[1]
    ELSE words[1] \o sep \o join(sep, Tail(words))

\* sub in s: sub occurs in s as a contiguous run of characters.
contains(s, sub) ==
    \E i \in 1..(Len(s) - Len(sub) + 1) : \A j \in 1..Len(sub) : s[i + j - 1] = sub[j]

\* not s.strip(): s holds nothing but whitespace.
strip_is_empty(s) == \A i \in 1..Len(s) : s[i] \in WHITESPACE

\* s.rsplit('.', 1)[1]: the text after the last '.', for an s that holds one.
rsplit_dot_last(s) ==
    LET dot == CHOOSE i \in 1..Len(s) : s[i] = "." /\ \A j \in (i + 1)..Len(s) : s[j] # "."
    IN  SubSeq(s, dot + 1, Len(s))

(***************************************************************************)
(* Configuration and vocabulary (module level of src/app.py).              *)
(***************************************************************************)

ALLOWED_EXTENSIONS == {<<"t","x","t">>, <<"p","d","f">>, <<"d","o","c","x">>}

JOB_ROLE_SKILLS ==
    "Software Engineer" :> <<
        <<"P","y","t","h","o","n">>,  \* Python
        <<"J","a","v","a">>,  \* Java
        <<"C","+","+">>,  \* C++
        <<"J","a","v","a","S","c","r","i","p","t">>,  \* JavaScript
        <<"S","Q","L">>,  \* SQL
        <<"D","a","t","a"," ","S","t","r","u","c","t","u","r","e","s">>,  \* Data Structures
        <<"A","l","g","o","r","i","t","h","m","s">>,  \* Algorithms
        <<"O","b","j","e","c","t","-","O","r","i","e","n","t","e","d"," ","P","r","o","g","r","a","m","m","i","n","g">>,  \* Object-Oriented Programming
        <<"W","e","b"," ","D","e","v","e","l","o","p","m","e","n","t">>,  \* Web Development
        <<"C","l","o","u","d"," ","C","o","m","p","u","t","i","n","g">>,  \* Cloud Computing
        <<"V","e","r","s","i","o","n"," ","C","o","n","t","r","o","l"," ","(","G","i","t",")">>,  \* Version Control (Git)
        <<"P","r","o","b","l","e","m"," ","S","o","l","v","i","n","g">>,  \* Problem Solving
        <<"C","o","m","m","u","n","i","c","a","t","i","o","n">>,  \* Communication
        <<"T","e","a","m","w","o","r","k">>,  \* Teamwork
        <<"A","g","i","l","e"," ","M","e","t","h","o","d","o","l","o","g","i","e","s">>,  \* Agile Methodologies
        <<"R","E","S","T"," ","A","P","I">>,  \* REST API
        <<"D","o","c","k","e","r">>,  \* Docker
        <<"K","u","b","e","r","n","e","t","e","s">>,  \* Kubernetes
        <<"M","i","c","r","o","s","e","r","v","i","c","e","s">>,  \* Microservices
        <<"U","n","i","t"," ","T","e","s","t","i","n","g">>,  \* Unit Testing
        <<"C","I","/","C","D">>  \* CI/CD
    >>
    @@ "Data Scientist" :> <<
        <<"P","y","t","h","o","n">>,  \* Python
        <<"R">>,  \* R
        <<"S","Q","L">>,  \* SQL
        <<"M","a","c","h","i","n","e"," ","L","e","a","r","n","i","n","g">>,  \* Machine Learning
        <<"D","e","e","p"," ","L","e","a","r","n","i","n","g">>,  \* Deep Learning
        <<"S","t","a","t","i","s","t","i","c","a","l"," ","M","o","d","e","l","i","n","g">>,  \* Statistical Modeling
        <<"D","a","t","a"," ","V","i","s","u","a","l","i","z","a","t","i","o","n">>,  \* Data Visualization
        <<"D","a","t","a"," ","W","r","a","n","g","l","i","n","g">>,  \* Data Wrangling
        <<"B","i","g"," ","D","a","t","a"," ","T","e","c","h","n","o","l","o","g","i","e","s">>,  \* Big Data Technologies
        <<"C","l","o","u","d"," ","C","o","m","p","u","t","i","n","g">>,  \* Cloud Computing
        <<"C","o","m","m","u","n","i","c","a","t","i","o","n">>,  \* Communication
        <<"P","r","o","b","l","e","m"," ","S","o","l","v","i","n","g">>,  \* Problem Solving
        <<"C","r","i","t","i","c","a","l"," ","T","h","i","n","k","i","n","g">>,  \* Critical Thinking
        <<"B","u","s","i","n","e","s","s"," ","A","c","u","m","e","n">>,  \* Business Acumen
        <<"P","a","n","d","a","s">>,  \* Pandas
        <<"N","u","m","P","y">>,  \* NumPy
        <<"S","c","i","k","i","t","-","l","e","a","r","n">>,  \* Scikit-learn
        <<"T","e","n","s","o","r","F","l","o","w">>,  \* TensorFlow
        <<"P","y","T","o","r","c","h">>,  \* PyTorch
        <<"S","p","a","r","k">>  \* Spark
    >>
    @@ "Business Analyst" :> <<
        <<"R","e","q","u","i","r","e","m","e","n","t","s"," ","G","a","t","h","e","r","i","n","g">>,  \* Requirements Gathering
        <<"D","a","t","a"," ","A","n","a","l","y","s","i","s">>,  \* Data Analysis
        <<"S","Q","L">>,  \* SQL
        <<"P","r","o","c","e","s","s"," ","M","o","d","e","l","i","n","g">>,  \* Process Modeling
        <<"S","t","a","k","e","h","o","l","d","e","r"," ","M","a","n","a","g","e","m","e","n","t">>,  \* Stakeholder Management
        <<"C","o","m","m","u","n","i","c","a","t","i","o","n">>,  \* Communication
        <<"P","r","o","b","l","e","m"," ","S","o","l","v","i","n","g">>,  \* Problem Solving
        <<"P","r","o","j","e","c","t"," ","M","a","n","a","g","e","m","e","n","t">>,  \* Project Management
        <<"M","i","c","r","o","s","o","f","t"," ","E","x","c","e","l">>,  \* Microsoft Excel
        <<"P","r","e","s","e","n","t","a","t","i","o","n"," ","S","k","i","l","l","s">>,  \* Presentation Skills
        <<"C","r","i","t","i","c","a","l"," ","T","h","i","n","k","i","n","g">>,  \* Critical Thinking
        <<"B","u","s","i","n","e","s","s"," ","P","r","o","c","e","s","s"," ","I","m","p","r","o","v","e","m","e","n","t">>,  \* Business Process Improvement
        <<"U","M","L">>,  \* UML
        <<"A","g","i","l","e">>,  \* Agile
        <<"U","s","e","r"," ","S","t","o","r","i","e","s">>,  \* User Stories
        <<"J","i","r","a">>,  \* Jira
        <<"C","o","n","f","l","u","e","n","c","e">>  \* Confluence
    >>
    @@ "Project Manager" :> <<
        <<"P","r","o","j","e","c","t"," ","P","l","a","n","n","i","n","g">>,  \* Project Planning
        <<"R","i","s","k"," ","M","a","n","a","g","e","m","e","n","t">>,  \* Risk Management
        <<"B","u","d","g","e","t"," ","M","a","n","a","g","e","m","e","n","t">>,  \* Budget Management
        <<"S","t","a","k","e","h","o","l","d","e","r"," ","M","a","n","a","g","e","m","e","n","t">>,  \* Stakeholder Management
        <<"T","e","a","m"," ","L","e","a","d","e","r","s","h","i","p">>,  \* Team Leadership
        <<"C","o","m","m","u","n","i","c","a","t","i","o","n">>,  \* Communication
        <<"N","e","g","o","t","i","a","t","i","o","n">>,  \* Negotiation
        <<"P","r","o","b","l","e","m"," ","S","o","l","v","i","n","g">>,  \* Problem Solving
        <<"A","g","i","l","e"," ","M","e","t","h","o","d","o","l","o","g","i","e","s">>,  \* Agile Methodologies
        <<"S","c","r","u","m">>,  \* Scrum
        <<"T","i","m","e"," ","M","a","n","a","g","e","m","e","n","t">>,  \* Time Management
        <<"D","e","c","i","s","i","o","n"," ","M","a","k","i","n","g">>,  \* Decision Making
        <<"G","a","n","t","t"," ","C","h","a","r","t","s">>,  \* Gantt Charts
        <<"R","e","s","o","u","r","c","e"," ","A","l","l","o","c","a","t","i","o","n">>,  \* Resource Allocation
        <<"C","o","n","f","l","i","c","t"," ","R","e","s","o","l","u","t","i","o","n">>  \* Conflict Resolution
    >>

EXTRA_SOFT_SKILLS ==
    <<
        <<"l","e","a","d","e","r","s","h","i","p">>,  \* leadership
        <<"a","d","a","p","t","a","b","i","l","i","t","y">>,  \* adaptability
        <<"c","r","e","a","t","i","v","i","t","y">>,  \* creativity
        <<"t","i","m","e"," ","m","a","n","a","g","e","m","e","n","t">>,  \* time management
        <<"a","n","a","l","y","t","i","c","a","l"," ","s","k","i","l","l","s">>,  \* analytical skills
        <<"a","t","t","e","n","t","i","o","n"," ","t","o"," ","d","e","t","a","i","l">>,  \* attention to detail
        <<"c","u","s","t","o","m","e","r"," ","s","e","r","v","i","c","e">>,  \* customer service
        <<"n","e","g","o","t","i","a","t","i","o","n">>,  \* negotiation
        <<"p","u","b","l","i","c"," ","s","p","e","a","k","i","n","g">>  \* public speaking
    >>

(***************************************************************************)
(* Uploaded files.  A file is its name and what its bytes hold: the        *)
(* chunks of a text file, the page texts of a PDF (a page without text,    *)
(* for which extract_text() gives None or "", is the empty chunk), the     *)
(* paragraphs of a DOCX; valid is FALSE when the PDF or DOCX parser        *)
(* raises on the bytes.  part is FALSE for a request without the 'resume'  *)
(* form part.                                                              *)
(***************************************************************************)

\* A byte sequence that is not valid UTF-8; decode(errors='ignore') drops it.
UNDECODABLE == "0xFF"

SKILLS_TEXT == <<"P","Y","T","H","O","N",","," ","S","q","l"," ","&"," ","d","o","c","k","e","r">>

PROJECT_TEXT == <<"P","r","o","j","e","c","t">>

SOFT_TEXT ==
    <<"T","e","a","m","w","o","r","k",","," ","c","o","m","m","u","n","i","c","a","t","i","o","n",",","\n",
      "P","R","O","B","L","E","M"," ","S","O","L","V","I","N","G",","," ",
      "a","d","a","p","t","a","b","i","l","i","t","y">>

PLAIN_TEXT == <<"h","e","l","l","o">>

\* What request.files holds for a request without the 'resume' part.
NO_FILE == [part |-> FALSE, filename |-> <<>>, valid |-> TRUE, chunks |-> <<>>]

uploaded(filename, valid, chunks) ==
    [part |-> TRUE, filename |-> filename, valid |-> valid, chunks |-> chunks]

FILES ==
    { uploaded(<<"m","y",".","c","v",".","t","x","t">>, TRUE, <<SKILLS_TEXT>>),
      uploaded(<<"C","V",".","P","D","F">>, TRUE, <<PROJECT_TEXT, <<>>>>),
      uploaded(<<"r","e","s","u","m","e",".","D","o","c","x">>, TRUE, <<SOFT_TEXT>>),
      uploaded(<<"n","o","t","e",".","T","X","T">>, FALSE, <<<<UNDECODABLE>>, PLAIN_TEXT>>),
      uploaded(<<"s","c","a","n",".","p","d","f">>, TRUE, <<<<>>, <<>>>>),
      uploaded(<<"b","l","a","n","k",".","d","o","c","x">>, TRUE, <<<<" ", "\t">>, <<>>>>),
      uploaded(<<"b","a","d",".","p","d","f">>, FALSE, <<>>),
      uploaded(<<"b","a","d",".","d","o","c","x">>, FALSE, <<>>),
      uploaded(<<"c","v",".","e","x","e">>, TRUE, <<SKILLS_TEXT>>),
      uploaded(<<"c","v",".","p","d","f",".","b","a","k">>, TRUE, <<PROJECT_TEXT>>),
      uploaded(<<"p","d","f">>, TRUE, <<PROJECT_TEXT>>),
      uploaded(<<>>, TRUE, <<>>),
      NO_FILE }

\* The values of the target_job_role form field ("" also stands for a
\* request without the field: both are falsy).
ROLE_CHOICES ==
    {"", "Software Engineer", "Data Scientist", "Astronaut"}

\* The concatenation of a list of strings.
RECURSIVE concat(_)
concat(chunks) == IF chunks = <<>> THEN <<>> ELSE Head(chunks) \o concat(Tail(chunks))

\* bytes.decode('utf-8', errors='ignore')
decode_ignore(bytes) == SelectSeq(bytes, LAMBDA b : b # UNDECODABLE)

\* allowed_file comparing the extension as written, without lower().
allowed_file_case_sensitive(filename) ==
    /\ \E i \in 1..Len(filename) : filename[i] = "."
    /\ rsplit_dot_last(filename) \in ALLOWED_EXTENSIONS

allowed_file(filename) ==
    /\ \E i \in 1..Len(filename) : filename[i] = "."
    /\ lower(rsplit_dot_last(filename)) \in ALLOWED_EXTENSIONS

\* The result is None (none = TRUE) or a text.
extract_text_from_file(file) ==
    LET file_extension == lower(rsplit_dot_last(file.filename))
    IN  IF file_extension = <<"t","x","t">>
        THEN [none |-> FALSE, text |-> decode_ignore(concat(file.chunks))]
        ELSE IF file_extension = <<"p","d","f">>
        THEN IF file.valid
             THEN [none |-> FALSE, text |-> concat(file.chunks)]
             ELSE [none |-> TRUE, text |-> <<>>]
        ELSE IF file_extension = <<"d","o","c","x">>
        THEN IF file.valid
             THEN [none |-> FALSE,
                   text |-> concat([i \in 1..Len(file.chunks) |-> file.chunks[i] \o <<"\n">>])]
             ELSE [none |-> TRUE, text |-> <<>>]
        ELSE [none |-> FALSE, text |-> <<>>]


\* The list JOB_ROLE_SKILLS.get falls back to for a role that is not a key.
DEFAULT_TARGET_SKILLS ==
    << <<"C","o","m","m","u","n","i","c","a","t","i","o","n">>,
       <<"P","r","o","b","l","e","m"," ","S","o","l","v","i","n","g">>,
       <<"T","e","a","m","w","o","r","k">>,
       <<"A","d","a","p","t","a","b","i","l","i","t","y">> >>

\* The elements of a list, as a set.
elements(list) == {list[i] : i \in 1..Len(list)}

\* The set comprehension over every role's list, then update() with the soft skills.
ALL_POSSIBLE_SKILLS_LOWER ==
    UNION {{lower(skill) : skill \in elements(JOB_ROLE_SKILLS[role])} :
              role \in DOMAIN JOB_ROLE_SKILLS}
        \cup elements(EXTRA_SOFT_SKILLS)

\* get_target_skills_static with get() defaulting to the empty list.
get_target_skills_static_no_default(job_role) ==
    IF job_role \in DOMAIN JOB_ROLE_SKILLS
    THEN JOB_ROLE_SKILLS[job_role]
    ELSE <<>>

get_target_skills_static(job_role) ==
    IF job_role \in DOMAIN JOB_ROLE_SKILLS
    THEN JOB_ROLE_SKILLS[job_role]
    ELSE DEFAULT_TARGET_SKILLS

\* The display casing of a detected skill: title() for a single word,
\* each word capitalize()d and joined by one space otherwise.
display_case(skill) ==
    IF Len(split(skill)) = 1
    THEN title(skill)
    ELSE LET words == split(skill)
         IN  join(<<" ">>, [i \in 1..Len(words) |-> capitalize(words[i])])

\* The vocabulary in source order, used only to number the skills.
VOCABULARY_ORDER ==
    JOB_ROLE_SKILLS["Software Engineer"] \o JOB_ROLE_SKILLS["Data Scientist"]
        \o JOB_ROLE_SKILLS["Business Analyst"] \o JOB_ROLE_SKILLS["Project Manager"]
        \o EXTRA_SOFT_SKILLS

\* The number of each vocabulary skill: its first place in VOCABULARY_ORDER.
SKILL_NUMBER ==
    [skill \in ALL_POSSIBLE_SKILLS_LOWER |->
        CHOOSE i \in 1..Len(VOCABULARY_ORDER) :
            /\ lower(VOCABULARY_ORDER[i]) = skill
            /\ \A j \in 1..(i - 1) : lower(VOCABULARY_ORDER[j]) # skill]

\* Where list(a_set) puts a string.  Python enumerates a set of strings by
\* hash-table slot, and the string hash is salted once per process: the
\* order is fixed while the process runs and differs between processes.
\* A seed stands for the salt; it scrambles the number of the skill.
set_slot(seed, s) == (SKILL_NUMBER[lower(s)] * seed * 29) % 83

\* list(a_set) under the process's hash seed.
RECURSIVE list_of_set(_, _)
list_of_set(seed, a_set) ==
    IF a_set = {} THEN <<>>
    ELSE LET first == CHOOSE s \in a_set :
                          \A t \in a_set : set_slot(seed, s) <= set_slot(seed, t)
         IN  <<first>> \o list_of_set(seed, a_set \ {first})

\* spaCy's Doc.text is the text it was given; only the lowercasing acts.
extracted_set(resume_text) ==
    LET doc_text == lower(resume_text)
    IN  {display_case(skill) : skill \in {s \in ALL_POSSIBLE_SKILLS_LOWER : contains(doc_text, s)}}

\* list(extracted): the detected skills in the order of the process's hash seed.
extracted_list(seed, resume_text) == list_of_set(seed, extracted_set(resume_text))

\* The number of hash seeds told apart.
NumSeeds == 2

\* The texts of the files of FILES that reach extraction, and extracted_list
\* of each under each seed, evaluated once.
FILE_TEXTS ==
    {extract_text_from_file(file).text :
        file \in {f \in FILES : f.filename # <<>> /\ allowed_file(f.filename)}}

EXTRACTED_LISTS ==
    [seed \in 1..NumSeeds, resume_text \in FILE_TEXTS |-> extracted_list(seed, resume_text)]

extract_skills_nlp(seed, resume_text) ==
    IF resume_text \in FILE_TEXTS
    THEN EXTRACTED_LISTS[seed, resume_text]
    ELSE extracted_list(seed, resume_text)

\* The ratio cut off after two decimals instead of rounded.
round_2dp_truncating(matched, total) == (matched * 10000) \div total

\* round(x, 2) of x = (matched / total) * 100, in hundredths of a percent:
\* the nearest hundredth, an exact tie going to the even one.  (No target
\* list of the vocabulary has a length that produces a tie, and the float
\* error of the division is far below half a hundredth.)
round_2dp(matched, total) ==
    LET q == (matched * 10000) \div total
        r == (matched * 10000) % total
    IN  IF 2 * r < total THEN q
        ELSE IF 2 * r > total THEN q + 1
        ELSE IF q % 2 = 0 THEN q ELSE q + 1

\* The loop comparing the target skill as written with the display forms.
chart_values_of_case_sensitive(target_job_skills, extracted_skills) ==
    [i \in 1..Len(target_job_skills) |->
        IF target_job_skills[i] \in elements(extracted_skills) THEN 1 ELSE 0]

\* The loop of upload over the target skills: the parallel 0/1 list.
chart_values_of(target_job_skills, extracted_skills) ==
    LET extracted_skills_lower == {lower(s) : s \in elements(extracted_skills)}
    IN  [i \in 1..Len(target_job_skills) |->
            IF lower(target_job_skills[i]) \in extracted_skills_lower THEN 1 ELSE 0]

\* matched_skills_count after the loop.
matched_skills_count_of(chart_values) ==
    Cardinality({i \in 1..Len(chart_values) : chart_values[i] = 1})

\* resume_score (hundredths of a percent): 0, then the rounded ratio when
\* the target list is not empty.
resume_score_of(matched_skills_count, target_job_skills) ==
    IF target_job_skills # <<>>
    THEN round_2dp(matched_skills_count, Len(target_job_skills))
    ELSE 0

\* The list comprehension comparing without lower().
missing_skills_of_case_sensitive(extracted_skills, target_job_skills) ==
    SelectSeq(target_job_skills, LAMBDA skill : skill \notin elements(extracted_skills))

\* The list comprehension of generate_recommendation_non_ai.
RECURSIVE missing_skills_of(_, _)
missing_skills_of(extracted_skills, target_job_skills) ==
    IF target_job_skills = <<>> THEN <<>>
    ELSE LET skill == Head(target_job_skills)
             lowered == [i \in 1..Len(extracted_skills) |-> lower(extracted_skills[i])]
             rest == missing_skills_of(extracted_skills, Tail(target_job_skills))
         IN  IF lower(skill) \notin elements(lowered) THEN <<skill>> \o rest ELSE rest

(***************************************************************************)
(* State.                                                                  *)
(***************************************************************************)
VARIABLES
    users,           \* the process-wide dict: user name -> password
    session,         \* the browser session (one browser)
    resp,            \* the response to the last request
    hashseed,        \* the salt of the process's string hash
    GEMINI_API_KEY,  \* os.getenv("GEMINI_API_KEY", "")
    threads          \* where each worker thread is in register

vars == <<users, session, resp, hashseed, GEMINI_API_KEY, threads>>

USERNAMES == {"testuser", "john.doe", "alice"}

PASSWORDS == {"password123"}

\* The requests to login and to register: a GET, or a POST of the form.
FORM_REQUESTS ==
    {[method |-> "GET", username |-> "", password |-> ""]}
        \cup {[method |-> "POST", username |-> u, password |-> p] :
                  u \in USERNAMES, p \in PASSWORDS}

\* The requests to upload: a GET, or a POST of a role and a file.
UPLOAD_REQUESTS ==
    {[method |-> "GET", target_job_role |-> "", file |-> NO_FILE]}
        \cup {[method |-> "POST", target_job_role |-> r, file |-> f] :
                  r \in ROLE_CHOICES, f \in FILES}

\* The keys upload writes together.
REPORT_KEYS ==
    {"chart_data", "extracted_skills", "target_job_skills", "resume_score",
     "selected_job_role"}

\* A session holding no key.  A key outside keys keeps the value below.
EMPTY_SESSION ==
    [keys |-> {},
     user |-> "",
     chart_data |-> [labels |-> <<>>, values |-> <<>>],
     extracted_skills |-> <<>>,
     target_job_skills |-> <<>>,
     resume_score |-> 0,
     selected_job_role |-> ""]

\* session.get(key, default)
session_get(key, default) == IF key \in session.keys THEN session[key] ELSE default

\* A value of the chatbot: None, or a str, or a list holding value.
NONE == [type |-> "None", value |-> ""]

str(value) == [type |-> "str", value |-> value]

list(value) == [type |-> "list", value |-> value]

\* bool(value) is True
truthy(value) == value.type # "None" /\ value.value # ""

\* What the remote service does to a call: error is the exception that
\* requests.post, raise_for_status or response.json raises ("" for none),
\* body the shape of the decoded JSON, text the 'text' of the first part of
\* the first candidate when the body carries one.
remote(error, body, text) == [error |-> error, body |-> body, text |-> text]

\* How a call ends: it returns value, or raised names the exception that
\* leaves it.
returns(value) == [raised |-> "", value |-> value]

raises(exception) == [raised |-> exception, value |-> NONE]

\* The handler made no call to the remote service.
NOT_CALLED == [raised |-> "", value |-> NONE]

\* The text a handler has not extracted.
NO_TEXT == [none |-> TRUE, text |-> <<>>]

\* The response to a request: what the handler flashed, whether it renders
\* a template or redirects, what it passes to the template, and, of the
\* handler's locals, the ones the properties below read.  A response that
\* passes nothing and read nothing holds the defaults.
response(route, method, flashes, result, target) ==
    [route |-> route, method |-> method, flashes |-> flashes,
     result |-> result, target |-> target,
     \* upload: the form field and file read, whether extract_text_from_file
     \* was called, and its result
     target_job_role |-> "", file |-> NO_FILE,
     extract_called |-> FALSE, resume_text |-> NO_TEXT,
     \* charts.html
     chart_labels |-> <<>>, chart_values |-> <<>>, background_colors |-> <<>>,
     resume_score |-> 0, selected_job_role |-> "",
     extracted_skills |-> <<>>, target_job_skills |-> <<>>,
     \* career_recommendation.html
     recommendation_text |-> <<>>,
     \* chatbot.html, and the remote outcome and the result of the call
     user_query |-> "", response |-> NONE,
     outcome |-> remote("", "", NONE), called |-> NOT_CALLED]

\* The number of worker threads of the server that are told apart.
NumThreads == 2

THREADS == 1..NumThreads

\* A thread that handles no request to register: pc is "idle".  A thread
\* between the test `username in users` and the write has pc "write" and
\* holds the form it read; an idle thread holds the messages it flashed
\* for its last request.
IDLE == [pc |-> "idle", username |-> "", password |-> "", flashes |-> <<>>]

Init ==
    /\ users = [u \in {"testuser", "john.doe"} |->
                   IF u = "testuser" THEN "password123" ELSE "securepass"]
    /\ session = EMPTY_SESSION
    /\ resp = response("", "", <<>>, "", "")
    /\ hashseed \in 1..NumSeeds
    /\ GEMINI_API_KEY \in {"", "key"}
    /\ threads = [t \in THREADS |-> IDLE]

(***************************************************************************)
(* Routes.                                                                 *)
(***************************************************************************)

login(method, username, password) ==
    /\ IF method = "POST" /\ username \in DOMAIN users /\ users[username] = password
       THEN /\ session' = [session EXCEPT !.keys = @ \cup {"user"}, !.user = username]
            /\ resp' = response("login", method, <<"Logged in successfully!">>,
                                "redirect", "dashboard")
       ELSE /\ session' = session
            /\ resp' = response("login", method,
                                IF method = "POST"
                                THEN <<"Invalid username or password. Please try again.">>
                                ELSE <<>>,
                                "render", "login.html")
    /\ UNCHANGED <<users, hashseed, GEMINI_API_KEY, threads>>

logout ==
    /\ session' = [session EXCEPT !.keys = @ \ {"user"}, !.user = ""]
    /\ resp' = response("logout", "GET", <<"You have been logged out.">>, "redirect", "home")
    /\ UNCHANGED <<users, hashseed, GEMINI_API_KEY, threads>>

\* The session written without its selected_job_role key.
stored_report_without_role(target_job_role, target_job_skills, extracted_skills) ==
    LET chart_labels == target_job_skills
        chart_values == chart_values_of(target_job_skills, extracted_skills)
        matched_skills_count == matched_skills_count_of(chart_values)
    IN  [session EXCEPT
            !.keys = @ \cup (REPORT_KEYS \ {"selected_job_role"}),
            !.chart_data = [labels |-> chart_labels, values |-> chart_values],
            !.extracted_skills = extracted_skills,
            !.target_job_skills = target_job_skills,
            !.resume_score = resume_score_of(matched_skills_count, target_job_skills)]

\* The five session keys as upload stores them.
stored_report(target_job_role, target_job_skills, extracted_skills) ==
    LET chart_labels == target_job_skills
        chart_values == chart_values_of(target_job_skills, extracted_skills)
        matched_skills_count == matched_skills_count_of(chart_values)
    IN  [session EXCEPT
            !.keys = @ \cup REPORT_KEYS,
            !.chart_data = [labels |-> chart_labels, values |-> chart_values],
            !.extracted_skills = extracted_skills,
            !.target_job_skills = target_job_skills,
            !.resume_score = resume_score_of(matched_skills_count, target_job_skills),
            !.selected_job_role = target_job_role]

\* A response of upload that read the role, and the file when file_read.
upload_response(method, target_job_role, file, flashes, result, target) ==
    [response("upload", method, flashes, result, target) EXCEPT
        !.target_job_role = target_job_role, !.file = file]

\* A response of upload after extract_text_from_file returned resume_text.
upload_extracted(method, target_job_role, file, resume_text, flashes, result, target) ==
    [upload_response(method, target_job_role, file, flashes, result, target) EXCEPT
        !.extract_called = TRUE, !.resume_text = resume_text]

upload(method, target_job_role, file) ==
    /\ IF "user" \notin session.keys
       THEN /\ resp' = response("upload", method, <<"Please log in to upload a resume.">>,
                                "redirect", "login")
            /\ session' = session
       ELSE IF method # "POST"
       THEN /\ resp' = response("upload", method, <<>>, "render", "upload.html")
            /\ session' = session
       ELSE IF target_job_role = ""
       THEN /\ resp' = upload_response(method, target_job_role, NO_FILE,
                                       <<"Please select a target job role.">>,
                                       "redirect", "upload")
            /\ session' = session
       ELSE IF ~file.part
       THEN /\ resp' = upload_response(method, target_job_role, NO_FILE,
                                       <<"No file part">>, "redirect", "upload")
            /\ session' = session
       ELSE IF file.filename = <<>>
       THEN /\ resp' = upload_response(method, target_job_role, file,
                                       <<"No selected file">>, "redirect", "upload")
            /\ session' = session
       ELSE IF ~allowed_file(file.filename)
       THEN /\ resp' = upload_response(method, target_job_role, file,
                                       <<"Invalid file type. Allowed types: TXT, PDF, DOCX">>,
                                       "render", "upload.html")
            /\ session' = session
       ELSE LET resume_text == extract_text_from_file(file)
            IN  IF resume_text.none \/ resume_text.text = <<>>
                THEN /\ resp' = upload_extracted(method, target_job_role, file, resume_text,
                                    <<"Could not extract text from the uploaded file. Please ensure it is a valid TXT, PDF, or DOCX.">>,
                                    "redirect", "upload")
                     /\ session' = session
                ELSE IF strip_is_empty(resume_text.text)
                THEN /\ resp' = upload_extracted(method, target_job_role, file, resume_text,
                                    <<"Extracted resume text is empty. Please ensure your resume contains readable text.">>,
                                    "redirect", "upload")
                     /\ session' = session
                ELSE LET target_job_skills == get_target_skills_static(target_job_role)
                         extracted_skills == extract_skills_nlp(hashseed, resume_text.text)
                     IN  IF target_job_skills = <<>>
                         THEN /\ resp' = upload_extracted(method, target_job_role, file,
                                             resume_text,
                                             <<"Could not determine target job skills. Please try again.">>,
                                             "redirect", "upload")
                              /\ session' = session
                         ELSE /\ session' = stored_report(target_job_role, target_job_skills,
                                                          extracted_skills)
                              /\ resp' = upload_extracted(method, target_job_role, file,
                                             resume_text,
                                             (IF extracted_skills = <<>>
                                              THEN <<"Could not extract skills from resume using NLP/keyword matching. Please ensure your resume contains clear skill mentions.">>
                                              ELSE <<>>)
                                                 \o <<"Resume analyzed and score calculated!">>,
                                             "redirect", "charts")
    /\ UNCHANGED <<users, hashseed, GEMINI_API_KEY, threads>>

register(method, username, password) ==
    /\ IF method = "POST" /\ username \notin DOMAIN users
       THEN /\ users' = [u \in DOMAIN users \cup {username} |->
                            IF u = username THEN password ELSE users[u]]
            /\ resp' = response("register", method,
                                <<"Registration successful! Please log in.">>,
                                "redirect", "login")
       ELSE /\ users' = users
            /\ resp' = response("register", method,
                                IF method = "POST"
                                THEN <<"Username already exists. Please choose a different one.">>
                                ELSE <<>>,
                                "render", "register.html")
    /\ UNCHANGED <<session, hashseed, GEMINI_API_KEY, threads>>

\* The two colours exchanged.
background_colors_of_exchanged(values) ==
    [i \in 1..Len(values) |-> IF values[i] = 1 THEN "#EF4444" ELSE "#10B981"]

\* green for 1 (matched), red for 0 (missing)
background_colors_of(values) ==
    [i \in 1..Len(values) |-> IF values[i] = 1 THEN "#10B981" ELSE "#EF4444"]

charts ==
    /\ IF "user" \notin session.keys
       THEN resp' = response("charts", "GET", <<"Please log in to view charts.">>,
                             "redirect", "login")
       ELSE LET chart_data == session_get("chart_data", [labels |-> <<>>, values |-> <<>>])
            IN  resp' = [response("charts", "GET", <<>>, "render", "charts.html") EXCEPT
                            !.chart_labels = chart_data.labels,
                            !.chart_values = chart_data.values,
                            !.background_colors = background_colors_of(chart_data.values),
                            !.resume_score = session_get("resume_score", 0),
                            !.selected_job_role = session_get("selected_job_role", "N/A"),
                            !.extracted_skills = session_get("extracted_skills", <<>>),
                            !.target_job_skills = session_get("target_job_skills", <<>>)]
    /\ UNCHANGED <<users, session, hashseed, GEMINI_API_KEY, threads>>

(***************************************************************************)
(* The recommendation text, as its lines.  A line is its template (kind)   *)
(* and what the template is filled with: the role, or skills.              *)
(***************************************************************************)
line(kind, role, skills) == [kind |-> kind, role |-> role, skills |-> skills]

\* The canned suggestion chosen for a missing skill by substring checks.
suggestion_kind(skill) ==
    IF \/ contains(skill, <<"P","y","t","h","o","n">>)
       \/ contains(skill, <<"S","Q","L">>)
       \/ contains(skill, <<"M","a","c","h","i","n","e"," ","L","e","a","r","n","i","n","g">>)
       \/ contains(skill, <<"J","a","v","a">>)
       \/ contains(skill, <<"J","a","v","a","S","c","r","i","p","t">>)
    THEN "online courses"
    ELSE IF \/ contains(skill, <<"C","o","m","m","u","n","i","c","a","t","i","o","n">>)
            \/ contains(skill, <<"P","r","o","b","l","e","m"," ","S","o","l","v","i","n","g">>)
            \/ contains(skill, <<"L","e","a","d","e","r","s","h","i","p">>)
            \/ contains(skill, <<"M","a","n","a","g","e","m","e","n","t">>)
    THEN "soft skills"
    ELSE "tutorials"

generate_recommendation_non_ai(extracted_skills, target_job_skills, selected_job_role) ==
    LET missing_skills == missing_skills_of(extracted_skills, target_job_skills)
        job_roles ==
            IF Len(missing_skills) < 3 /\ Len(extracted_skills) > 5
            THEN <<line("well-aligned", selected_job_role, <<>>)>>
                 \o (IF selected_job_role \in DOMAIN JOB_ROLE_SKILLS
                     THEN <<line("adjacent roles", selected_job_role, <<>>)>>
                     ELSE <<>>)
            ELSE <<line("broader range", "", <<>>),
                   line("roles related to", "",
                        SubSeq(extracted_skills, 1,
                               IF Len(extracted_skills) < 3 THEN Len(extracted_skills) ELSE 3))>>
        improvement ==
            IF missing_skills # <<>>
            THEN <<line("bridge the gaps", "", <<>>)>>
                 \o [i \in 1..Len(missing_skills) |->
                        line(suggestion_kind(missing_skills[i]), "", <<missing_skills[i]>>)]
            ELSE <<line("great job", "", <<>>)>>
    IN  <<line("title", selected_job_role, <<>>), line("based on", "", <<>>),
          line("1. Specific Job Roles", "", <<>>)>>
        \o job_roles
        \o <<line("2. Skill Improvement Suggestions", "", <<>>)>>
        \o improvement
        \o <<line("3. General Career Advice", "", <<>>)>>

career_recommendation ==
    /\ IF "user" \notin session.keys
       THEN resp' = response("career_recommendation", "GET",
                             <<"Please log in to get career recommendations.">>,
                             "redirect", "login")
       ELSE resp' = [response("career_recommendation", "GET", <<>>, "render",
                              "career_recommendation.html") EXCEPT
                        !.recommendation_text =
                            generate_recommendation_non_ai(
                                session_get("extracted_skills", <<>>),
                                session_get("target_job_skills", <<>>),
                                session_get("selected_job_role", "a job role"))]
    /\ UNCHANGED <<users, session, hashseed, GEMINI_API_KEY, threads>>

(***************************************************************************)
(* The chatbot.                                                            *)
(***************************************************************************)

REMOTE_OUTCOMES ==
    { remote("ConnectionError", "", NONE),                 \* transport failure
      remote("HTTPError", "", NONE),                       \* 4xx or 5xx status
      remote("JSONDecodeError", "", NONE),                 \* the body is not JSON
      remote("", "array", NONE),                           \* JSON, but not an object
      remote("", "no candidates", NONE),                   \* {} or an empty list of candidates
      remote("", "blocked", NONE),                         \* promptFeedback.blockReason is set
      remote("", "candidate without parts", NONE),
      remote("", "part without text", NONE),
      remote("", "text", NONE),                            \* "text": null
      remote("", "text", str("")),
      remote("", "text", str("Start with a portfolio.")),
      remote("", "text", list("")),                        \* "text": []
      remote("", "text", list("portfolio")) }

\* The subclasses of requests.exceptions.RequestException among the errors.
REQUEST_EXCEPTIONS == {"ConnectionError", "HTTPError", "JSONDecodeError"}

\* The body of the try block.
gemini_try_block(outcome) ==
    IF outcome.error # "" THEN raises(outcome.error)
    ELSE IF outcome.body = "array" THEN raises("AttributeError")
    ELSE IF outcome.body = "text"
    THEN IF outcome.text.type \in {"str", "list"}
         THEN returns(outcome.text)
         ELSE raises("TypeError")
    ELSE IF outcome.body = "part without text" THEN raises("KeyError")
    ELSE IF outcome.body = "blocked"
    THEN returns(str("The AI response was blocked due to content policy. Please try a different query."))
    ELSE returns(str("Sorry, I couldn't generate a response. The AI returned an unexpected format."))

\* call_gemini_api_for_chatbot without its last handler, except Exception.
call_gemini_api_for_chatbot_without_last_handler(api_key, outcome) ==
    IF api_key = ""
    THEN returns(str("Sorry, the AI chatbot is not configured. Please ensure the API key is set."))
    ELSE LET tried == gemini_try_block(outcome)
         IN  IF tried.raised \in REQUEST_EXCEPTIONS
             THEN returns(str("Sorry, I'm having trouble connecting to the AI. Error: {e}"))
             ELSE tried

call_gemini_api_for_chatbot(api_key, outcome) ==
    IF api_key = ""
    THEN returns(str("Sorry, the AI chatbot is not configured. Please ensure the API key is set."))
    ELSE LET tried == gemini_try_block(outcome)
         IN  IF tried.raised = "" THEN tried
             ELSE IF tried.raised \in REQUEST_EXCEPTIONS
             THEN returns(str("Sorry, I'm having trouble connecting to the AI. Error: {e}"))
             ELSE returns(str("An unexpected error occurred with the AI. Error: {e}"))

\* The values of the query form field.
QUERIES == {"", "How do I become a data scientist?"}

\* The requests to chatbot: a GET, or a POST of a query, with what the
\* remote service does if it is called.
CHATBOT_REQUESTS ==
    {[method |-> "GET", user_query |-> "", outcome |-> remote("", "no candidates", NONE)]}
        \cup {[method |-> "POST", user_query |-> "", outcome |-> remote("", "no candidates", NONE)]}
        \cup {[method |-> "POST", user_query |-> q, outcome |-> o] :
                  q \in QUERIES \ {""}, o \in REMOTE_OUTCOMES}

\* The handler passing on what the call returned, without its fallback.
chatbot_response_text_without_fallback(returned) == returned

\* The response text the handler passes on: the fallback when the call
\* returned nothing truthy.
chatbot_response_text(returned) ==
    IF ~truthy(returned)
    THEN str("Sorry, I couldn't generate a response at this time. There might be an issue with the AI service or content policy. Please try again later.")
    ELSE returned

chatbot(method, query, outcome) ==
    /\ IF "user" \notin session.keys
       THEN resp' = response("chatbot", method, <<"Please log in to use the chatbot.">>,
                             "redirect", "login")
       ELSE IF method # "POST"
       THEN resp' = response("chatbot", method, <<>>, "render", "chatbot.html")
       ELSE IF query = ""
       THEN resp' = response("chatbot", method, <<"Please enter a query.">>,
                             "render", "chatbot.html")
       ELSE LET called == call_gemini_api_for_chatbot(GEMINI_API_KEY, outcome)
                answered == [response("chatbot", method, <<>>, "render", "chatbot.html") EXCEPT
                                !.user_query = query,
                                \* no request is made without an API key
                                !.outcome = IF GEMINI_API_KEY = "" THEN @ ELSE outcome,
                                !.called = called]
            IN  IF called.raised # ""
                THEN \* the exception leaves the handler: Flask answers 500
                     resp' = [answered EXCEPT !.result = "error", !.target = "500"]
                ELSE resp' = [answered EXCEPT
                                 !.flashes = IF ~truthy(called.value)
                                             THEN <<"Error getting response from AI chatbot.">>
                                             ELSE <<>>,
                                 !.response = chatbot_response_text(called.value)]
    /\ UNCHANGED <<users, session, hashseed, GEMINI_API_KEY, threads>>

Next ==
    \/ \E req \in FORM_REQUESTS : login(req.method, req.username, req.password)
    \/ \E req \in FORM_REQUESTS : register(req.method, req.username, req.password)
    \/ logout
    \/ \E req \in UPLOAD_REQUESTS : upload(req.method, req.target_job_role, req.file)
    \/ charts
    \/ career_recommendation
    \/ \E req \in CHATBOT_REQUESTS : chatbot(req.method, req.user_query, req.outcome)

Spec == Init /\ [][Next]_vars

(***************************************************************************)
(* register on the threads of the server.  app.run() serves each request   *)
(* on a thread of its own; the test `username in users` and the write      *)
(* users[username] = password are two steps on the one dict, and another   *)
(* thread may run between them.                                            *)
(***************************************************************************)

\* The passwords two clients choose for the same new user name.
THREADED_PASSWORDS == {"password123", "hunter2"}

\* The forms posted to register and to login while threads interleave.
THREADED_REQUESTS ==
    {[method |-> "GET", username |-> "", password |-> ""]}
        \cup {[method |-> "POST", username |-> u, password |-> p] :
                  u \in {"testuser", "alice"}, p \in THREADED_PASSWORDS}

\* register up to and including the test `username in users`.
register_check(t, method, username, password) ==
    /\ threads[t].pc = "idle"
    /\ IF method = "POST" /\ username \notin DOMAIN users
       THEN /\ threads' = [threads EXCEPT ![t] =
                               [pc |-> "write", username |-> username,
                                password |-> password, flashes |-> <<>>]]
            /\ resp' = resp
       ELSE LET flashes == IF method = "POST"
                           THEN <<"Username already exists. Please choose a different one.">>
                           ELSE <<>>
            IN  /\ threads' = [threads EXCEPT ![t] =
                                   [pc |-> "idle", username |-> username,
                                    password |-> "", flashes |-> flashes]]
                /\ resp' = response("register", method, flashes, "render", "register.html")
    /\ UNCHANGED <<users, session, hashseed, GEMINI_API_KEY>>

\* register from the write users[username] = password to its redirect.
register_write(t) ==
    /\ threads[t].pc = "write"
    /\ users' = [u \in DOMAIN users \cup {threads[t].username} |->
                    IF u = threads[t].username THEN threads[t].password ELSE users[u]]
    /\ threads' = [threads EXCEPT
                       ![t].pc = "idle",
                       ![t].flashes = <<"Registration successful! Please log in.">>]
    /\ resp' = response("register", "POST", <<"Registration successful! Please log in.">>,
                        "redirect", "login")
    /\ UNCHANGED <<session, hashseed, GEMINI_API_KEY>>

NextThreaded ==
    \/ \E t \in THREADS, req \in THREADED_REQUESTS :
           register_check(t, req.method, req.username, req.password)
    \/ \E t \in THREADS : register_write(t)
    \/ \E req \in THREADED_REQUESTS : login(req.method, req.username, req.password)
    \/ logout

SpecThreaded == Init /\ [][NextThreaded]_vars

(***************************************************************************)
(* Properties.                                                             *)
(***************************************************************************)

\* The last request was an upload that completed an analysis: the session
\* holds the report it stored, resp the text it analysed.
Analysed == resp.route = "upload" /\ resp.result = "redirect" /\ resp.target = "charts"

\* The session holds a match report.
ReportHeld == REPORT_KEYS \subseteq session.keys

\* sub occurs in s, stated on slices.
Occurs(sub, s) == \E i \in 0..(Len(s) - Len(sub)) : SubSeq(s, i + 1, i + Len(sub)) = sub

\* The file name ends in a '.' followed by txt, pdf or docx in any letter
\* case, and that '.' is its last one.
HasAllowedSuffix(filename) ==
    \E ext \in {<<"t","x","t">>, <<"p","d","f">>, <<"d","o","c","x">>} :
        LET dot == Len(filename) - Len(ext)
        IN  /\ dot >= 1
            /\ filename[dot] = "."
            /\ \A j \in 1..Len(ext) : filename[dot + j] \in {ext[j], TO_UPPER[ext[j]]}

\* C1: an upload by a logged-in user with a role and a named file whose
\* name does not end in .txt, .pdf or .docx (in any letter case) is answered
\* "Invalid file type", never calls extract_text_from_file and leaves the
\* session as it was; one whose name does so end proceeds to extraction.
C1_ExtensionGate ==
    [][(resp'.route = "upload" /\ resp'.file.filename # <<>>)
          => IF HasAllowedSuffix(resp'.file.filename)
             THEN resp'.extract_called
             ELSE /\ resp'.flashes = <<"Invalid file type. Allowed types: TXT, PDF, DOCX">>
                  /\ ~resp'.extract_called
                  /\ session' = session]_vars

\* A file named with a '.' and another extension was rejected while the
\* session holds an earlier report.
C1_Witness ==
    /\ resp.route = "upload"
    /\ \E i \in 1..Len(resp.file.filename) : resp.file.filename[i] = "."
    /\ ~HasAllowedSuffix(resp.file.filename)
    /\ resp.flashes = <<"Invalid file type. Allowed types: TXT, PDF, DOCX">>
    /\ ReportHeld

\* Lowercasing the display form of a vocabulary entry gives the entry back.
DisplayCaseLowersBack == \A skill \in ALL_POSSIBLE_SKILLS_LOWER : lower(display_case(skill)) = skill

\* C2: after an analysis, the indicator of each target skill is 1 exactly
\* when the skill, lowercased, occurs in the lowercased text (no word
\* boundary is asked for); the extracted skills, lowercased, are exactly the
\* vocabulary entries that occur in it, and lowercasing the display form of
\* a vocabulary entry gives the entry back.
C2_IndicatorIsSubstring ==
    Analysed =>
        LET text == lower(resp.resume_text.text)
            targets == session.target_job_skills
            values == session.chart_data.values
            extracted == session.extracted_skills
        IN  /\ Len(values) = Len(targets)
            /\ \A i \in 1..Len(targets) :
                   values[i] = IF Occurs(lower(targets[i]), text) THEN 1 ELSE 0
            /\ \A skill \in ALL_POSSIBLE_SKILLS_LOWER :
                   Occurs(skill, text) <=> \E j \in 1..Len(extracted) : lower(extracted[j]) = skill
            /\ DisplayCaseLowersBack

\* Role "Software Engineer" and a text mentioning PYTHON, Sql and docker:
\* exactly Python (1st), SQL (5th) and Docker (17th) have indicator 1.
C2_Witness ==
    /\ Analysed
    /\ session.selected_job_role = "Software Engineer"
    /\ resp.resume_text.text = SKILLS_TEXT
    /\ {i \in 1..Len(session.chart_data.values) : session.chart_data.values[i] = 1} = {1, 5, 17}

\* score (in hundredths) is the hundredth nearest to ones / total * 100.
IsNearestHundredth(score, ones, total) ==
    LET diff == score * total - ones * 10000
    IN  2 * (IF diff < 0 THEN -diff ELSE diff) <= total

\* The number of indicators equal to 1.
Ones(values) == Cardinality({i \in 1..Len(values) : values[i] = 1})

\* C3: the stored score is the number of 1 indicators over the number of
\* target skills, times 100, rounded to two decimals; it lies in [0, 100];
\* it is 0 when no skill was extracted and 100 when every target skill,
\* lowercased, occurs in the lowercased text.
C3_Score ==
    ReportHeld =>
        LET targets == session.target_job_skills
            score == session.resume_score
        IN  /\ targets # <<>>
            /\ IsNearestHundredth(score, Ones(session.chart_data.values), Len(targets))
            /\ 0 <= score /\ score <= 10000
            /\ session.extracted_skills = <<>> => score = 0
            /\ (/\ Analysed
                /\ \A i \in 1..Len(targets) :
                       Occurs(lower(targets[i]), lower(resp.resume_text.text)))
                   => score = 10000

\* An analysis of a text that mentions every target skill scored 100.
C3_Witness ==
    /\ Analysed
    /\ \A i \in 1..Len(session.target_job_skills) :
           Occurs(lower(session.target_job_skills[i]), lower(resp.resume_text.text))
    /\ session.resume_score = 10000

\* The skills the recommendation suggests improving, in the order of its lines.
SuggestedSkills(text) ==
    LET lines == SelectSeq(text, LAMBDA l : l.kind \in {"online courses", "soft skills", "tutorials"})
    IN  [i \in 1..Len(lines) |-> lines[i].skills[1]]

\* The labels whose indicator is 0, in the order of the labels.
RECURSIVE ZeroLabels(_, _)
ZeroLabels(labels, values) ==
    IF labels = <<>> THEN <<>>
    ELSE (IF Head(values) = 0 THEN <<Head(labels)>> ELSE <<>>)
             \o ZeroLabels(Tail(labels), Tail(values))

\* C4: the missing skills of the recommendation are the target skills
\* whose indicator in the match report is 0, in the order of the role's
\* vocabulary list, under every hash seed.
C4_MissingSkills ==
    (resp.route = "career_recommendation" /\ resp.result = "render") =>
        /\ SuggestedSkills(resp.recommendation_text)
               = ZeroLabels(session.chart_data.labels, session.chart_data.values)
        /\ ReportHeld =>
               session.chart_data.labels = get_target_skills_static(session.selected_job_role)

\* A recommendation for a report with matched and missing skills, whose
\* extracted skills are not in the order of the target list.
C4_Witness ==
    /\ resp.route = "career_recommendation" /\ resp.result = "render"
    /\ Len(SuggestedSkills(resp.recommendation_text)) >= 2
    /\ Ones(session.chart_data.values) >= 2
    /\ \E i, j \in 1..Len(session.chart_data.labels) :
           /\ i < j
           /\ \E a, b \in 1..Len(session.extracted_skills) :
                  /\ b < a
                  /\ lower(session.extracted_skills[a]) = lower(session.chart_data.labels[i])
                  /\ lower(session.extracted_skills[b]) = lower(session.chart_data.labels[j])

\* C5: an upload whose role is not a key of the vocabulary, and whose text
\* is usable, is analysed against Communication, Problem Solving, Teamwork,
\* Adaptability and stores a report.
C5_UnknownRole ==
    (/\ resp.route = "upload"
     /\ resp.extract_called
     /\ resp.target_job_role \notin
            {"Software Engineer", "Data Scientist", "Business Analyst", "Project Manager"}
     /\ ~resp.resume_text.none
     /\ \E i \in 1..Len(resp.resume_text.text) : resp.resume_text.text[i] \notin WHITESPACE)
        => /\ Analysed
           /\ ReportHeld
           /\ session.selected_job_role = resp.target_job_role
           /\ session.target_job_skills =
                  << <<"C","o","m","m","u","n","i","c","a","t","i","o","n">>,
                     <<"P","r","o","b","l","e","m"," ","S","o","l","v","i","n","g">>,
                     <<"T","e","a","m","w","o","r","k">>,
                     <<"A","d","a","p","t","a","b","i","l","i","t","y">> >>
           /\ session.chart_data.labels = session.target_job_skills

\* An upload for the role "Astronaut" stored a report.
C5_Witness ==
    /\ Analysed
    /\ resp.target_job_role = "Astronaut"
    /\ session.selected_job_role = "Astronaut"
    /\ Len(session.chart_data.values) = 4

\* The last request was a chatbot POST that called the remote service.
ChatCalled == resp.route = "chatbot" /\ resp.user_query # ""

C7_Original ==
    (resp.route = "chatbot" /\ resp.method = "POST" /\ resp.result # "redirect") =>
        /\ resp.response.type = "str"
        /\ resp.response.value # ""

\* C7 as amended: a POST of a logged-in user with a non-empty query is
\* answered with one response that is never empty, the text as the service
\* sent it or a fallback or error string; a POST with an empty query gets
\* no response text and the message 'Please enter a query.'.
C7_NonEmptyResponse ==
    /\ ChatCalled =>
           /\ resp.result = "render"
           /\ truthy(resp.response)
           /\ resp.response.type = "str" \/ resp.response = resp.outcome.text
    /\ (/\ resp.route = "chatbot" /\ resp.method = "POST" /\ resp.result = "render"
        /\ resp.user_query = "")
           => resp.response = NONE /\ resp.flashes = <<"Please enter a query.">>

\* The call returned nothing truthy and the handler answered its fallback.
C7_Witness ==
    /\ ChatCalled
    /\ ~truthy(resp.called.value)
    /\ truthy(resp.response)
    /\ resp.flashes = <<"Error getting response from AI chatbot.">>

\* C8 as claimed: a text that is empty or whitespace-only after a
\* successful extraction is reported as 'Extracted resume text is empty',
\* a parse error as 'Could not extract text', and the extractor returns
\* None only for a parse error.
C8_EmptyContentDistinct ==
    (resp.route = "upload" /\ resp.extract_called) =>
        /\ resp.resume_text.none => ~resp.file.valid
        /\ resp.resume_text.none =>
               resp.flashes = <<"Could not extract text from the uploaded file. Please ensure it is a valid TXT, PDF, or DOCX.">>
        /\ (~resp.resume_text.none /\ strip_is_empty(resp.resume_text.text)) =>
               resp.flashes = <<"Extracted resume text is empty. Please ensure your resume contains readable text.">>

\* C9 as claimed: once the user who uploaded has logged out, the session
\* holds no match report.
C9_ReportEndsWithLogout == "user" \notin session.keys => session.keys \cap REPORT_KEYS = {}

\* C10: what charts passes to its template is consistent: the labels are
\* the stored target skills (those of the stored role, in vocabulary order,
\* when a report is held), the indicators are as many and 0 or 1, the
\* colours are as many, green exactly for 1 and red exactly for 0, and the
\* score is the rounded share of 1 indicators (0 for no indicators).
C10_ChartsConsistent ==
    (resp.route = "charts" /\ resp.result = "render") =>
        LET labels == resp.chart_labels
            values == resp.chart_values
            colours == resp.background_colors
        IN  /\ labels = resp.target_job_skills
            /\ ReportHeld => labels = get_target_skills_static(resp.selected_job_role)
            /\ Len(values) = Len(labels)
            /\ \A i \in 1..Len(values) : values[i] \in {0, 1}
            /\ Len(colours) = Len(labels)
            /\ \A i \in 1..Len(colours) :
                   /\ colours[i] = "#10B981" <=> values[i] = 1
                   /\ colours[i] = "#EF4444" <=> values[i] = 0
            /\ IF labels = <<>>
               THEN resp.resume_score = 0
               ELSE IsNearestHundredth(resp.resume_score, Ones(values), Len(labels))

\* charts showed a report with matched and missing skills.
C10_Witness ==
    /\ resp.route = "charts" /\ resp.result = "render"
    /\ ReportHeld
    /\ \E i, j \in 1..Len(resp.chart_values) :
           resp.chart_values[i] = 1 /\ resp.chart_values[j] = 0
    /\ resp.resume_score > 0

\* C11 as claimed: the recommendation text made from an analysis is the
\* one every process makes from the same text and role, whatever the order
\* in which its hash seed enumerates the extracted skill set.
C11_SameTextSameRecommendation ==
    Analysed =>
        \A seed \in 1..NumSeeds :
            generate_recommendation_non_ai(
                    extract_skills_nlp(seed, resp.resume_text.text),
                    session.target_job_skills, session.selected_job_role)
                = generate_recommendation_non_ai(
                      session.extracted_skills,
                      session.target_job_skills, session.selected_job_role)

\* The step leaves the five report keys of the session as they were.
ReportUnchanged ==
    /\ session'.keys \cap REPORT_KEYS = session.keys \cap REPORT_KEYS
    /\ \A key \in REPORT_KEYS : session'[key] = session[key]

\* C12 as claimed: an upload that does not complete an analysis leaves the
\* five report keys unchanged, the five keys are only written together by a
\* completed analysis, and the success message is the only message of the
\* request that shows it.
C12_Original ==
    [][/\ (resp'.route = "upload" /\ ~Analysed') => ReportUnchanged
       /\ ~ReportUnchanged => (Analysed' /\ ReportHeld')
       /\ (resp'.route = "upload" /\ \E i \in 1..Len(resp'.flashes) :
               resp'.flashes[i] = "Resume analyzed and score calculated!")
              => resp'.flashes = <<"Resume analyzed and score calculated!">>]_vars

\* C12 as amended: an upload that does not complete an analysis leaves the
\* five report keys unchanged, the five keys are only written together by a
\* completed analysis, and the success message is shown only by a request
\* that completed an analysis, alone or, when no skill was extracted, after
\* the message 'Could not extract skills', the report then having score 0.
C12_FailedUploadKeepsReport ==
    [][/\ (resp'.route = "upload" /\ ~Analysed') => ReportUnchanged
       /\ ~ReportUnchanged => (Analysed' /\ ReportHeld')
       /\ (resp'.route = "upload" /\ \E i \in 1..Len(resp'.flashes) :
               resp'.flashes[i] = "Resume analyzed and score calculated!")
              => /\ Analysed' /\ ReportHeld'
                 /\ session'.selected_job_role = resp'.target_job_role
                 /\ IF session'.extracted_skills # <<>>
                    THEN resp'.flashes = <<"Resume analyzed and score calculated!">>
                    ELSE /\ resp'.flashes =
                                <<"Could not extract skills from resume using NLP/keyword matching. Please ensure your resume contains clear skill mentions.",
                                  "Resume analyzed and score calculated!">>
                         /\ session'.resume_score = 0]_vars

\* The extractor failed on an upload for another role than the one of the
\* report the session holds.
C12_Witness ==
    /\ resp.route = "upload"
    /\ resp.extract_called
    /\ resp.resume_text.none
    /\ ReportHeld
    /\ session.selected_job_role # resp.target_job_role

\* Thread t answered its last request to register with the success message.
Succeeded(t) ==
    /\ threads[t].pc = "idle"
    /\ threads[t].flashes = <<"Registration successful! Please log in.">>

\* C13 as claimed: no step changes the password of a registered user
\* name; of the requests to register one new user name that the threads
\* handle at the same time, at most one answers with success, and the
\* password stored is the one of a request that answered with success.
C13_PasswordNeverOverwritten ==
    [](\A t1 \in THREADS :
           Succeeded(t1) =>
               /\ threads[t1].username \in DOMAIN users
               /\ users[threads[t1].username] = threads[t1].password
               /\ \A t2 \in THREADS \ {t1} :
                      ~(Succeeded(t2) /\ threads[t2].username = threads[t1].username))
        /\ [][\A u \in DOMAIN users : u \in DOMAIN users' /\ users'[u] = users[u]]_vars

====
